---- MODULE Spec2Model ----
(***************************************************************************)
(* The DID attribute pallet (pallets/did/src/lib.rs): the AttributeStore   *)
(* and AttributeNonce storage maps, the four core operations of the Did    *)
(* trait implementation and the four dispatchables that wrap them.         *)
(*                                                                         *)
(* Scaling.  T::BlockNumber is modelled as an unsigned integer of          *)
(* BlockNumberBits bits (u32 in the peaq runtime, so that                  *)
(* u32::max_value().into() is the largest value of the type); byte strings *)
(* are sequences of small naturals; blake2_256 is an injective tag on the  *)
(* SCALE-encoded preimage (collision freedom is assumed, not checked).     *)
(***************************************************************************)
EXTENDS Integers, Sequences, FiniteSets, TLC

\* ---------------------------------------------------------------- bounds
\* width of the height type in bits (32 in the runtime)
BlockNumberBits == 2
\* width of an account id in bytes (32 in the runtime)
AccountIdLen == 1
\* number of calls in a run
MaxCalls == 2
\* the last height the host reaches in a run
MaxHeight == 2
\* the host's moment in block 1
StartMoment == 10

\* ------------------------------------------------------ program constants
\* ensure!(name.len() <= 64, ..)
MaxNameLen == 64

\* --------------------------------------------------------------- helpers
RECURSIVE Pow2(_)
Pow2(n) == IF n = 0 THEN 1 ELSE 2 * Pow2(n - 1)

Rep(b, n) == [i \in 1..n |-> b]

None == <<>>
Some(x) == <<x>>

\* u32::max_value().into(), the largest value of the modelled height type
MaxBlockNumber == Pow2(BlockNumberBits) - 1

Owners == {Rep(1, AccountIdLen), Rep(2, AccountIdLen)}
Origins == {Some(o) : o \in Owners} \cup {None}
ShortName == Rep(7, MaxNameLen)
LongName == Rep(7, MaxNameLen + 1)
\* a name of exactly the longest accepted length and one a byte longer
Names == {ShortName, LongName}
Values == {<<1>>, <<2>>}
ValidFors == {None, Some(0), Some(MaxBlockNumber - 1)}

\* ------------------------------------------------------------ arithmetic
\* now_block_number + blocks on the unsigned height type.  The outcome on
\* overflow depends on the build: a panic when overflow checks are compiled
\* in (None here), two's-complement wrapping otherwise.
add(a, b, checks) ==
    IF a + b <= MaxBlockNumber THEN Some(a + b)
    ELSE IF checks THEN None
    ELSE Some((a + b) % (MaxBlockNumber + 1))

\* validity_of with None taken as "valid from now on", the current height
validity_of_none_is_now(now_block_number, valid_for, checks) ==
    IF valid_for = None THEN Some(now_block_number)
    ELSE add(now_block_number, valid_for[1], checks)

\* let validity = match valid_for { Some(blocks) => now + blocks, None => max }
validity_of(now_block_number, valid_for, checks) ==
    IF valid_for = None THEN Some(MaxBlockNumber)
    ELSE add(now_block_number, valid_for[1], checks)

\* ------------------------------------------------------ identity deriver
\* SCALE compact length prefix of a byte slice
compact(n) ==
    IF n < 64 THEN <<n * 4>>
    ELSE <<(n * 4 + 1) % 256, (n * 4 + 1) \div 256>>

RECURSIVE le_bytes(_, _)
le_bytes(n, k) == IF k = 0 THEN <<>> ELSE <<n % 256>> \o le_bytes(n \div 256, k - 1)

\* (&owner, name, nonce).encode()
encode(owner, name, nonce) == owner \o compact(Len(name)) \o name \o le_bytes(nonce, 8)

blake2_256(bytes) == <<"blake2_256", bytes>>

\* let id = (&owner, name, nonce).using_encoded(blake2_256)
id_of(owner, name, nonce) == blake2_256(encode(owner, name, nonce))

\* ---------------------------------------------------------- storage maps
\* a store key that is not scoped by the owner: every record is filed under
\* the first account
store_key_unscoped(owner, id) == <<Rep(1, AccountIdLen), id>>

\* the key of AttributeStore: (T::AccountId, [u8; 32])
store_key(owner, id) == <<owner, id>>

\* AttributeNonce is a ValueQuery map of u64: an absent key reads as 0
nonce_of(nonces, owner, name) ==
    IF <<owner, name>> \in DOMAIN nonces THEN nonces[<<owner, name>>] ELSE 0

contains_key(store, k) == k \in DOMAIN store

DefaultAttribute ==
    [name |-> <<>>, value |-> <<>>, validity |-> 0, created |-> 0, nonce |-> 0]

\* AttributeStore is a ValueQuery map: an absent key reads as the default
attribute_of(store, k) == IF k \in DOMAIN store THEN store[k] ELSE DefaultAttribute

insert(store, k, a) == [x \in DOMAIN store \cup {k} |-> IF x = k THEN a ELSE store[x]]

remove(store, k) == [x \in DOMAIN store \ {k} |-> store[x]]

\* <AttributeStore<T>>::mutate(key, |a| *a = attr): read, apply, write back
mutate(store, k, attr) == insert(store, k, attr)

\* -------------------------------------------------------- core operations
\* A core operation maps the ambient state st (the two storage maps, the
\* current height and moment, the build's overflow behaviour) to its result,
\* the store it leaves and the storage accesses it made, in order.  Only
\* AttributeStore is returned: no operation has a write to AttributeNonce.
\* result "Panic" is the abort of the call on arithmetic overflow.

\* get_attribute that hides a record whose validity lies before the current
\* height
get_attribute_unexpired(st, owner, name) ==
    LET k == store_key(owner, id_of(owner, name, nonce_of(st.AttributeNonce, owner, name)))
    IN  IF contains_key(st.AttributeStore, k)
           /\ attribute_of(st.AttributeStore, k).validity >= st.block_number
        THEN [ret |-> Some(attribute_of(st.AttributeStore, k)),
              store |-> st.AttributeStore,
              log |-> <<"nonce_of", "contains_key", "attribute_of">>]
        ELSE [ret |-> None, store |-> st.AttributeStore,
              log |-> <<"nonce_of", "contains_key">>]

\* get_attribute that reads through the ValueQuery default and leaves the
\* default record behind on an absent key
get_attribute_inserts_default(st, owner, name) ==
    LET k == store_key(owner, id_of(owner, name, nonce_of(st.AttributeNonce, owner, name)))
    IN  IF contains_key(st.AttributeStore, k)
        THEN [ret |-> Some(attribute_of(st.AttributeStore, k)),
              store |-> st.AttributeStore,
              log |-> <<"nonce_of", "contains_key", "attribute_of">>]
        ELSE [ret |-> None, store |-> insert(st.AttributeStore, k, DefaultAttribute),
              log |-> <<"nonce_of", "contains_key">>]

\* fn get_attribute(owner, name) -> Option<Attribute>
get_attribute(st, owner, name) ==
    LET nonce == nonce_of(st.AttributeNonce, owner, name)
        id == id_of(owner, name, nonce)
        k == store_key(owner, id)
    IN  IF contains_key(st.AttributeStore, k)
        THEN [ret |-> Some(attribute_of(st.AttributeStore, k)),
              store |-> st.AttributeStore,
              log |-> <<"nonce_of", "contains_key", "attribute_of">>]
        ELSE [ret |-> None, store |-> st.AttributeStore,
              log |-> <<"nonce_of", "contains_key">>]

\* create_attribute with the record's value field filled from the name
create_attribute_name_as_value(st, owner, name, value, valid_for) ==
    LET validity == validity_of(st.block_number, valid_for, st.overflow_checks)
        nonce == nonce_of(st.AttributeNonce, owner, name)
        new_attribute == [name |-> name, value |-> name, validity |-> validity[1],
                          created |-> st.now, nonce |-> nonce]
    IN  IF validity = None
        THEN [result |-> "Panic", store |-> st.AttributeStore, log |-> <<>>]
        ELSE [result |-> "Ok",
              store |-> insert(st.AttributeStore,
                               store_key(owner, id_of(owner, name, nonce)), new_attribute),
              log |-> <<"nonce_of", "insert">>]

\* create_attribute that stores the record as the next generation of the name
create_attribute_next_nonce(st, owner, name, value, valid_for) ==
    LET validity == validity_of(st.block_number, valid_for, st.overflow_checks)
        nonce == nonce_of(st.AttributeNonce, owner, name) + 1
        new_attribute == [name |-> name, value |-> value, validity |-> validity[1],
                          created |-> st.now, nonce |-> nonce]
    IN  IF validity = None
        THEN [result |-> "Panic", store |-> st.AttributeStore, log |-> <<>>]
        ELSE [result |-> "Ok",
              store |-> insert(st.AttributeStore,
                               store_key(owner, id_of(owner, name, nonce)), new_attribute),
              log |-> <<"nonce_of", "insert">>]

\* fn create_attribute(owner, name, value, valid_for) -> Result<(), DidError>
create_attribute(st, owner, name, value, valid_for) ==
    LET now_timestamp == st.now
        now_block_number == st.block_number
        validity == validity_of(now_block_number, valid_for, st.overflow_checks)
        nonce == nonce_of(st.AttributeNonce, owner, name)
        id == id_of(owner, name, nonce)
        new_attribute == [name |-> name, value |-> value, validity |-> validity[1],
                          created |-> now_timestamp, nonce |-> nonce]
    IN  IF validity = None
        THEN [result |-> "Panic", store |-> st.AttributeStore, log |-> <<>>]
        ELSE [result |-> "Ok",
              store |-> insert(st.AttributeStore, store_key(owner, id), new_attribute),
              log |-> <<"nonce_of", "insert">>]

\* mutate_attribute that writes through the ValueQuery default before it
\* reports the missing attribute
mutate_attribute_write_first(st, owner, name, value, valid_for) ==
    LET validity == validity_of(st.block_number, valid_for, st.overflow_checks)
        attribute == get_attribute(st, owner, name)
        k == store_key(owner, id_of(owner, name, nonce_of(st.AttributeNonce, owner, name)))
        attr == [attribute_of(st.AttributeStore, k) EXCEPT
                    !.value = value, !.validity = validity[1]]
    IN  IF validity = None
        THEN [result |-> "Panic", store |-> st.AttributeStore, log |-> <<>>]
        ELSE [result |-> IF attribute.ret # None THEN "Ok" ELSE "NotFound",
              store |-> mutate(st.AttributeStore, k, attr),
              log |-> attribute.log \o <<"nonce_of", "mutate">>]

\* fn mutate_attribute(owner, name, value, valid_for) -> Result<(), DidError>
mutate_attribute(st, owner, name, value, valid_for) ==
    LET now_block_number == st.block_number
        validity == validity_of(now_block_number, valid_for, st.overflow_checks)
        attribute == get_attribute(st, owner, name)
        nonce == nonce_of(st.AttributeNonce, owner, name)
        id == id_of(owner, name, nonce)
        attr == [attribute.ret[1] EXCEPT !.value = value, !.validity = validity[1]]
    IN  IF validity = None
        THEN [result |-> "Panic", store |-> st.AttributeStore, log |-> <<>>]
        ELSE IF attribute.ret # None
        THEN [result |-> "Ok",
              store |-> mutate(st.AttributeStore, store_key(owner, id), attr),
              log |-> attribute.log \o <<"nonce_of", "mutate">>]
        ELSE [result |-> "NotFound", store |-> st.AttributeStore, log |-> attribute.log]

\* delete_attribute that reports success without removing the record
delete_attribute_keep(st, owner, name) ==
    LET k == store_key(owner, id_of(owner, name, nonce_of(st.AttributeNonce, owner, name)))
    IN  IF ~contains_key(st.AttributeStore, k)
        THEN [result |-> "NotFound", store |-> st.AttributeStore,
              log |-> <<"nonce_of", "contains_key">>]
        ELSE [result |-> "Ok", store |-> st.AttributeStore,
              log |-> <<"nonce_of", "contains_key", "remove">>]

\* fn delete_attribute(owner, name) -> Result<(), DidError>
delete_attribute(st, owner, name) ==
    LET nonce == nonce_of(st.AttributeNonce, owner, name)
        id == id_of(owner, name, nonce)
        k == store_key(owner, id)
    IN  IF ~contains_key(st.AttributeStore, k)
        THEN [result |-> "NotFound", store |-> st.AttributeStore,
              log |-> <<"nonce_of", "contains_key">>]
        ELSE [result |-> "Ok", store |-> remove(st.AttributeStore, k),
              log |-> <<"nonce_of", "contains_key", "remove">>]

\* ----------------------------------------------------------- dispatchables
\* enum DidError, as matched by dispatch_error
DidErrors == {"NotFound", "NameExceedMaxChar", "AlreadyExist", "FailedCreate", "FailedUpdate"}

\* Error::<T>::dispatch_error(err)
dispatch_error(err) ==
    CASE err = "NotFound" -> "AttributeNotFound"
      [] err = "NameExceedMaxChar" -> "AttributeNameExceedMax64"
      [] err = "AlreadyExist" -> "AttributeAlreadyExist"
      [] err = "FailedCreate" -> "AttributeCreationFailed"
      [] err = "FailedUpdate" -> "AttributeCreationFailed"

\* ensure_signed(origin)?
ensure_signed(origin) == origin # None

\* ensure!(name.len() <= 64, Error::<T>::AttributeNameExceedMax64)
name_ok(name) == Len(name) <= MaxNameLen

\* A dispatchable maps the ambient state to its DispatchResult, the store it
\* leaves, the events it deposited and, in order, its storage accesses and
\* its deposit_event.
Rejected(st, err) == [result |-> err, store |-> st.AttributeStore, events |-> <<>>, log |-> <<>>]

\* the common tail with the event deposited before the result of the core
\* call is looked at
Dispatched_event_first(r, ev) ==
    [result |-> IF r.result \in {"Ok", "Panic"} THEN r.result ELSE dispatch_error(r.result),
     store |-> r.store,
     events |-> IF r.result = "Panic" THEN <<>> ELSE <<ev>>,
     log |-> IF r.result = "Panic" THEN r.log ELSE <<"deposit_event">> \o r.log]

\* the common tail of add/update/remove: match core { Ok => deposit, Err(e) => dispatch_error(e) }
Dispatched(r, ev) ==
    [result |-> IF r.result \in {"Ok", "Panic"} THEN r.result ELSE dispatch_error(r.result),
     store |-> r.store,
     events |-> IF r.result = "Ok" THEN <<ev>> ELSE <<>>,
     log |-> IF r.result = "Ok" THEN r.log \o <<"deposit_event">> ELSE r.log]

\* pub fn add_attribute(origin, name, value, valid_for) -> DispatchResult
add_attribute(st, origin, name, value, valid_for) ==
    IF ~ensure_signed(origin) THEN Rejected(st, "BadOrigin")
    ELSE IF ~name_ok(name) THEN Rejected(st, "AttributeNameExceedMax64")
    ELSE Dispatched(create_attribute(st, origin[1], name, value, valid_for),
                    <<"AttributeAdded", origin[1], name, value, valid_for>>)

\* pub fn update_attribute(origin, name, value, valid_for) -> DispatchResult
update_attribute(st, origin, name, value, valid_for) ==
    IF ~ensure_signed(origin) THEN Rejected(st, "BadOrigin")
    ELSE IF ~name_ok(name) THEN Rejected(st, "AttributeNameExceedMax64")
    ELSE Dispatched(mutate_attribute(st, origin[1], name, value, valid_for),
                    <<"AttributeUpdated", origin[1], name, value, valid_for>>)

\* pub fn read_attribute(origin, name) -> DispatchResult
read_attribute(st, origin, name) ==
    IF ~ensure_signed(origin) THEN Rejected(st, "BadOrigin")
    ELSE LET attribute == get_attribute(st, origin[1], name)
         IN  IF attribute.ret # None
             THEN [result |-> "Ok", store |-> attribute.store,
                   events |-> <<(<<"AttributeRead", attribute.ret[1]>>)>>,
                   log |-> attribute.log \o <<"deposit_event">>]
             ELSE [result |-> "AttributeNotFound", store |-> attribute.store,
                   events |-> <<>>, log |-> attribute.log]

\* pub fn remove_attribute(origin, name) -> DispatchResult
remove_attribute(st, origin, name) ==
    IF ~ensure_signed(origin) THEN Rejected(st, "BadOrigin")
    ELSE IF ~name_ok(name) THEN Rejected(st, "AttributeNameExceedMax64")
    ELSE Dispatched(delete_attribute(st, origin[1], name),
                    <<"AttributeRemoved", origin[1], name, Some(st.block_number)>>)

\* ------------------------------------------------------------------ state
VARIABLES
    AttributeStore,   \* (owner, id) -> Attribute, the keys that are present
    AttributeNonce,   \* (owner, name) -> u64, the keys that were ever written
    block_number,     \* frame_system::Pallet::<T>::block_number()
    now,              \* T::Time::now()
    overflow_checks,  \* whether the build panics on arithmetic overflow
    last,             \* the call that has just completed, with the events it deposited
    calls             \* number of calls made so far

vars == <<AttributeStore, AttributeNonce, block_number, now, overflow_checks, last, calls>>

State ==
    [AttributeStore |-> AttributeStore, AttributeNonce |-> AttributeNonce,
     block_number |-> block_number, now |-> now, overflow_checks |-> overflow_checks]

NoCall ==
    [op |-> "none", origin |-> None, name |-> <<>>, value |-> <<>>, valid_for |-> None,
     err |-> "", result |-> "", ret |-> None, events |-> <<>>, log |-> <<>>]

\* Genesis storage is empty; the first block that carries calls is block 1.
Init ==
    /\ AttributeStore = <<>>
    /\ AttributeNonce = <<>>
    /\ block_number = 1
    /\ now = StartMoment
    /\ overflow_checks \in BOOLEAN
    /\ last = NoCall
    /\ calls = 0

\* The effect of a completed call with outcome r on the state.
Commit(op, origin, name, value, valid_for, r, ret, evs) ==
    /\ calls < MaxCalls
    /\ calls' = calls + 1
    /\ AttributeStore' = r.store
    /\ last' = [op |-> op, origin |-> origin, name |-> name, value |-> value,
                valid_for |-> valid_for, err |-> "", result |-> r.result, ret |-> ret,
                events |-> evs, log |-> r.log]
    /\ UNCHANGED <<AttributeNonce, block_number, now, overflow_checks>>

\* ----------------------------------------- calls of the Did trait (the core)
CreateAttribute ==
    \E owner \in Owners, name \in Names, value \in Values, valid_for \in ValidFors :
        Commit("create_attribute", Some(owner), name, value, valid_for,
               create_attribute(State, owner, name, value, valid_for), None, <<>>)

MutateAttribute ==
    \E owner \in Owners, name \in Names, value \in Values, valid_for \in ValidFors :
        Commit("mutate_attribute", Some(owner), name, value, valid_for,
               mutate_attribute(State, owner, name, value, valid_for), None, <<>>)

GetAttribute ==
    \E owner \in Owners, name \in Names :
        LET r == get_attribute(State, owner, name)
        IN  Commit("get_attribute", Some(owner), name, <<>>, None,
                   [result |-> "Ok", store |-> r.store, log |-> r.log], r.ret, <<>>)

DeleteAttribute ==
    \E owner \in Owners, name \in Names :
        Commit("delete_attribute", Some(owner), name, <<>>, None,
               delete_attribute(State, owner, name), None, <<>>)

\* ---------------------------------------------------------- extrinsics
\* The arguments of an unsigned call are never looked at: one choice of them
\* (with the over-long name) stands for all.
Unsigned(origin, name, value, valid_for) ==
    origin = None => (name = LongName /\ value = <<1>> /\ valid_for = None)

AddAttribute ==
    \E origin \in Origins, name \in Names, value \in Values, valid_for \in ValidFors :
        /\ Unsigned(origin, name, value, valid_for)
        /\ LET r == add_attribute(State, origin, name, value, valid_for)
           IN  Commit("add_attribute", origin, name, value, valid_for, r, None, r.events)

UpdateAttribute ==
    \E origin \in Origins, name \in Names, value \in Values, valid_for \in ValidFors :
        /\ Unsigned(origin, name, value, valid_for)
        /\ LET r == update_attribute(State, origin, name, value, valid_for)
           IN  Commit("update_attribute", origin, name, value, valid_for, r, None, r.events)

ReadAttribute ==
    \E origin \in Origins, name \in Names :
        /\ Unsigned(origin, name, <<1>>, None)
        /\ LET r == read_attribute(State, origin, name)
           IN  Commit("read_attribute", origin, name, <<>>, None, r, None, r.events)

RemoveAttribute ==
    \E origin \in Origins, name \in Names :
        /\ Unsigned(origin, name, <<1>>, None)
        /\ LET r == remove_attribute(State, origin, name)
           IN  Commit("remove_attribute", origin, name, <<>>, None, r, None, r.events)

\* ------------------------------------------------------------------- host
\* The host starts the next block: the height and the moment advance.
AdvanceBlock ==
    /\ block_number < MaxBlockNumber
    /\ block_number < MaxHeight
    /\ block_number' = block_number + 1
    /\ now' = now + 1
    /\ last' = NoCall
    /\ UNCHANGED <<AttributeStore, AttributeNonce, overflow_checks, calls>>

Next ==
    \/ CreateAttribute
    \/ MutateAttribute
    \/ GetAttribute
    \/ DeleteAttribute
    \/ AddAttribute
    \/ UpdateAttribute
    \/ ReadAttribute
    \/ RemoveAttribute
    \/ AdvanceBlock

Spec == Init /\ [][Next]_vars

\* The core alone, as another pallet calls it through the Did trait.
NextCore ==
    \/ CreateAttribute
    \/ MutateAttribute
    \/ GetAttribute
    \/ DeleteAttribute
    \/ AdvanceBlock

SpecCore == Init /\ [][NextCore]_vars

\* The conversion of a core error to the host's, applied to any DidError an
\* implementation of the Did trait may hand to a dispatchable.
DispatchError ==
    \E err \in DidErrors :
        /\ calls < MaxCalls
        /\ calls' = calls + 1
        /\ last' = [NoCall EXCEPT !.op = "dispatch_error", !.err = err,
                                  !.result = dispatch_error(err)]
        /\ UNCHANGED <<AttributeStore, AttributeNonce, block_number, now, overflow_checks>>

NextErrors ==
    \/ NextCore
    \/ DispatchError

SpecErrors == Init /\ [][NextErrors]_vars

\* ======================================================== properties
LastOwner == last.origin[1]

\* the state the step leads to, as the operations read it
StateNext ==
    [AttributeStore |-> AttributeStore', AttributeNonce |-> AttributeNonce',
     block_number |-> block_number', now |-> now', overflow_checks |-> overflow_checks']

\* the keys of the records of (owner, name)
RecordsOf(store, owner, name) ==
    {k \in DOMAIN store : k[1] = owner /\ store[k].name = name}

\* C1 Create-then-read: right after create_attribute(O, n, v, valid_for) has
\* returned, get_attribute(O, n) returns a present record with value v and
\* name n, and with validity the maximum height when valid_for was None.
C1_CreateThenRead ==
    (last.op = "create_attribute" /\ last.result = "Ok") =>
        LET got == get_attribute(State, LastOwner, last.name).ret
        IN  /\ got # None
            /\ got[1].value = last.value
            /\ got[1].name = last.name
            /\ (last.valid_for = None => got[1].validity = MaxBlockNumber)

\* a create with valid_for = None over a store that already holds a record
C1_Witness ==
    /\ last.op = "create_attribute" /\ last.result = "Ok"
    /\ last.valid_for = None /\ last.value = <<2>>
    /\ calls > 1 /\ Cardinality(DOMAIN AttributeStore) > 1

\* C2 Create-then-delete-then-read: right after a successful
\* delete_attribute(O, n), get_attribute(O, n) returns absent and a second
\* delete_attribute(O, n) fails with NotFound.
C2_CreateDeleteRead ==
    (last.op = "delete_attribute" /\ last.result = "Ok") =>
        /\ get_attribute(State, LastOwner, last.name).ret = None
        /\ delete_attribute(State, LastOwner, last.name).result = "NotFound"
        /\ delete_attribute(State, LastOwner, last.name).store = AttributeStore

\* a delete that succeeded: the record it removed was created before
C2_Witness ==
    /\ last.op = "delete_attribute" /\ last.result = "Ok"
    /\ calls > 1 /\ AttributeStore = <<>>

\* C3 Mutate preserves identity fields: when (O, n) is present,
\* mutate_attribute(O, n, v2, valid_for) leaves exactly one record for (O, n),
\* with value v2 and the newly computed validity, and with the name, created
\* and nonce of the record before the call.
C3_MutatePreservesIdentity ==
    [][(last'.op = "mutate_attribute"
            /\ get_attribute(State, last'.origin[1], last'.name).ret # None) =>
        LET old == get_attribute(State, last'.origin[1], last'.name).ret[1]
            new == get_attribute(StateNext, last'.origin[1], last'.name).ret
        IN  /\ new # None
            /\ Cardinality(RecordsOf(AttributeStore', last'.origin[1], last'.name)) = 1
            /\ new[1].value = last'.value
            /\ Some(new[1].validity) =
                   validity_of(block_number, last'.valid_for, overflow_checks)
            /\ new[1].name = old.name
            /\ new[1].created = old.created
            /\ new[1].nonce = old.nonce]_vars

\* C4 Mutate on absent name fails: when (O, n) is absent,
\* mutate_attribute(O, n, v, valid_for) returns NotFound and creates no record.
C4_MutateAbsentFails ==
    [][(last'.op = "mutate_attribute"
            /\ get_attribute(State, last'.origin[1], last'.name).ret = None) =>
        /\ last'.result = "NotFound"
        /\ get_attribute(StateNext, last'.origin[1], last'.name).ret = None
        /\ AttributeStore' = AttributeStore]_vars

\* C5 Validity arithmetic: with valid_for = Some(h) at height H, create_attribute
\* and mutate_attribute do not fail on the sum and store validity = H + h exactly.
C5_ValidityArithmetic ==
    (last.op \in {"create_attribute", "mutate_attribute"} /\ last.valid_for # None) =>
        /\ last.result # "Panic"
        /\ last.result = "Ok" =>
               get_attribute(State, LastOwner, last.name).ret[1].validity
                   = block_number + last.valid_for[1]

\* C6 With valid_for = None, create_attribute and mutate_attribute store the
\* maximum value of the height type as the validity, whatever the current
\* height, so the ledger height is never above it.
C6_NoneIsMaxHeight ==
    (last.op \in {"create_attribute", "mutate_attribute"} /\ last.valid_for = None) =>
        /\ last.result \in {"Ok", "NotFound"}
        /\ last.result = "Ok" =>
               LET got == get_attribute(State, LastOwner, last.name).ret[1]
               IN  /\ got.validity = MaxBlockNumber
                   /\ block_number <= got.validity

\* a mutate with valid_for = None in a later block than the first
C6_Witness ==
    /\ last.op = "mutate_attribute" /\ last.result = "Ok"
    /\ last.valid_for = None /\ block_number > 1

\* C7 Overwrite-on-recreate: create_attribute for an (owner, name) that is
\* already present does not fail and leaves exactly one record for it, with
\* the value of this call; no two records share an (owner, name).
C7_OverwriteOnRecreate ==
    [][(last'.op = "create_attribute"
            /\ get_attribute(State, last'.origin[1], last'.name).ret # None) =>
        /\ last'.result = "Ok"
        /\ Cardinality(RecordsOf(AttributeStore', last'.origin[1], last'.name)) = 1
        /\ get_attribute(StateNext, last'.origin[1], last'.name).ret[1].value = last'.value
        /\ \A o \in Owners, n \in Names :
               Cardinality(RecordsOf(AttributeStore', o, n)) <= 1]_vars

Dispatchables == {"add_attribute", "update_attribute", "read_attribute", "remove_attribute"}

\* C8 Boundary name-length validation: a dispatchable called by a signed origin
\* with a name longer than 64 bytes is rejected with AttributeNameExceedMax64
\* before any core operation or store access runs.
C8_NameLengthRejected ==
    (last.op \in Dispatchables /\ last.origin # None /\ Len(last.name) > MaxNameLen) =>
        /\ last.result = "AttributeNameExceedMax64"
        /\ last.log = <<>>
        /\ last.events = <<>>

StoreWrites == {"insert", "mutate", "remove"}

IsStoreAccess(x) == x # "deposit_event"

\* the accesses of a call to the two storage maps, in order
StoreLog(log) == SelectSeq(log, IsStoreAccess)

\* C9 No partial mutation on failure: a call that does not return Ok leaves
\* AttributeStore and AttributeNonce as they were; every call makes at most one
\* store write, as its last storage access, and changes the store only by it.
C9_NoPartialMutation ==
    [][last'.op # "none" =>
        LET log == StoreLog(last'.log)
        IN  /\ last'.result # "Ok" =>
                   (AttributeStore' = AttributeStore /\ AttributeNonce' = AttributeNonce)
            /\ \A i \in 1..Len(log) : log[i] \in StoreWrites => i = Len(log)
            /\ (\A i \in 1..Len(log) : log[i] \notin StoreWrites) =>
                   AttributeStore' = AttributeStore
            /\ last'.result # "Ok" =>
                   \A i \in 1..Len(log) : log[i] \notin StoreWrites]_vars

\* a mutate and a remove that failed on a store that holds records
C9_Witness ==
    /\ last.op \in {"mutate_attribute", "remove_attribute"}
    /\ last.result \in {"NotFound", "AttributeNotFound"}
    /\ AttributeStore # <<>>

\* the part of the two storage maps that belongs to owner
Restrict(st, owner) ==
    [st EXCEPT
        !.AttributeStore =
            [k \in {x \in DOMAIN st.AttributeStore : x[1] = owner} |-> st.AttributeStore[k]],
        !.AttributeNonce =
            [k \in {x \in DOMAIN st.AttributeNonce : x[1] = owner} |-> st.AttributeNonce[k]]]

\* what the call c (a record shaped like last) gives when run in state st
Run(st, c) ==
    CASE c.op = "create_attribute" ->
            [result |-> create_attribute(st, c.origin[1], c.name, c.value, c.valid_for).result,
             ret |-> None, events |-> <<>>]
      [] c.op = "mutate_attribute" ->
            [result |-> mutate_attribute(st, c.origin[1], c.name, c.value, c.valid_for).result,
             ret |-> None, events |-> <<>>]
      [] c.op = "get_attribute" ->
            [result |-> "Ok", ret |-> get_attribute(st, c.origin[1], c.name).ret,
             events |-> <<>>]
      [] c.op = "delete_attribute" ->
            [result |-> delete_attribute(st, c.origin[1], c.name).result,
             ret |-> None, events |-> <<>>]
      [] c.op = "add_attribute" ->
            LET r == add_attribute(st, c.origin, c.name, c.value, c.valid_for)
            IN  [result |-> r.result, ret |-> None, events |-> r.events]
      [] c.op = "update_attribute" ->
            LET r == update_attribute(st, c.origin, c.name, c.value, c.valid_for)
            IN  [result |-> r.result, ret |-> None, events |-> r.events]
      [] c.op = "read_attribute" ->
            LET r == read_attribute(st, c.origin, c.name)
            IN  [result |-> r.result, ret |-> None, events |-> r.events]
      [] c.op = "remove_attribute" ->
            LET r == remove_attribute(st, c.origin, c.name)
            IN  [result |-> r.result, ret |-> None, events |-> r.events]

\* C10 Owner isolation: a call made for owner A leaves every record and nonce
\* entry of every other owner unchanged, and its result, returned record and
\* events are those it gives on A's own records alone.
C10_OwnerIsolation ==
    [][(last'.op # "none" /\ last'.origin # None) =>
        LET A == last'.origin[1]
        IN  /\ \A k \in DOMAIN AttributeStore \cup DOMAIN AttributeStore' :
                   k[1] # A =>
                       /\ k \in DOMAIN AttributeStore
                       /\ k \in DOMAIN AttributeStore'
                       /\ AttributeStore'[k] = AttributeStore[k]
            /\ AttributeNonce' = AttributeNonce
            /\ Run(Restrict(State, A), last') =
                   [result |-> last'.result, ret |-> last'.ret, events |-> last'.events]]_vars

\* a successful call of one owner while the other owner holds a record
C10_Witness ==
    /\ last.op \in {"add_attribute", "delete_attribute", "get_attribute"}
    /\ last.result = "Ok" /\ last.origin # None
    /\ \E k \in DOMAIN AttributeStore : k[1] # last.origin[1]

\* the event kind each dispatchable deposits
EventKind(op) ==
    CASE op = "add_attribute" -> "AttributeAdded"
      [] op = "update_attribute" -> "AttributeUpdated"
      [] op = "read_attribute" -> "AttributeRead"
      [] op = "remove_attribute" -> "AttributeRemoved"

\* C11 Event posting order: a dispatchable that returns Ok has deposited
\* exactly one event, of its own kind, as its last step, after its store write,
\* and the state holds the effect of the core operation; a dispatchable that
\* does not return Ok, and a direct core call, deposit no event.
C11_EventPostingOrder ==
    /\ (last.op \in Dispatchables /\ last.result = "Ok") =>
           LET got == get_attribute(State, LastOwner, last.name).ret
           IN  /\ Len(last.events) = 1
               /\ last.events[1][1] = EventKind(last.op)
               /\ last.log[Len(last.log)] = "deposit_event"
               /\ \A i \in 1..(Len(last.log) - 1) : last.log[i] # "deposit_event"
               /\ last.op \in {"add_attribute", "update_attribute"} =>
                      (got # None /\ got[1].value = last.value)
               /\ last.op = "read_attribute" => got # None
               /\ last.op = "remove_attribute" => got = None
    /\ (last.op \in Dispatchables /\ last.result # "Ok") =>
           /\ last.events = <<>>
           /\ \A i \in 1..Len(last.log) : last.log[i] # "deposit_event"
    /\ last.op \notin Dispatchables => last.events = <<>>

\* a remove that succeeded and an update that failed
C11_Witness ==
    \/ last.op = "remove_attribute" /\ last.result = "Ok" /\ AttributeStore = <<>>
    \/ last.op = "update_attribute" /\ last.result = "AttributeNotFound"

\* C12 The AttributeAdded event of a successful add carries the owner, the
\* name, the value and the optional expiry height: with valid_for given, the
\* absolute height stored as the record's validity.
C12_AddedEventCarriesExpiry ==
    (last.op = "add_attribute" /\ last.result = "Ok") =>
        LET ev == last.events[1]
            got == get_attribute(State, LastOwner, last.name).ret[1]
        IN  /\ ev[2] = LastOwner
            /\ ev[3] = last.name
            /\ ev[4] = last.value
            /\ last.valid_for = None => ev[5] = None
            /\ last.valid_for # None => ev[5] = Some(got.validity)

\* enum Error<T>: the host error that corresponds to each core error
HostErrorOf(err) ==
    CASE err = "NotFound" -> "AttributeNotFound"
      [] err = "NameExceedMaxChar" -> "AttributeNameExceedMax64"
      [] err = "AlreadyExist" -> "AttributeAlreadyExist"
      [] err = "FailedCreate" -> "AttributeCreationFailed"
      [] err = "FailedUpdate" -> "AttributeUpdateFailed"

\* C13 Errors are surfaced verbatim: dispatch_error gives each core error its
\* own host error, distinct core errors give distinct host errors, and the
\* result is never Ok.
C13_ErrorsVerbatim ==
    last.op = "dispatch_error" =>
        /\ last.result # "Ok"
        /\ last.result = HostErrorOf(last.err)
        /\ \A e \in DidErrors \ {last.err} : dispatch_error(e) # last.result

Present(st, owner, name) == get_attribute(st, owner, name).ret # None

\* the key every operation derives for (owner, name) in state st
KeyOf(st, owner, name) ==
    store_key(owner, id_of(owner, name, nonce_of(st.AttributeNonce, owner, name)))

\* present means: get returns a record, mutate and delete succeed; absent
\* means: get returns none, mutate and delete fail with NotFound
PresenceObserved ==
    \A o \in Owners, n \in Names :
        /\ Present(State, o, n) =>
               /\ delete_attribute(State, o, n).result = "Ok"
               /\ \A v \in Values, vf \in ValidFors :
                      mutate_attribute(State, o, n, v, vf).result = "Ok"
        /\ ~Present(State, o, n) =>
               /\ delete_attribute(State, o, n).result = "NotFound"
               /\ \A v \in Values, vf \in ValidFors :
                      mutate_attribute(State, o, n, v, vf).result = "NotFound"

\* every record is stored under the key that get, mutate and delete derive
KeysAgree ==
    \A k \in DOMAIN AttributeStore :
        k = KeyOf(State, k[1], AttributeStore[k].name)

\* C14 Presence state machine: (owner, name) is present, i.e. get returns a
\* record and mutate and delete succeed, exactly when the most recent
\* successful create or delete on it was a create: nothing is present at
\* first, a successful create makes the pair present, a successful delete
\* makes it absent, no other step changes the presence of any pair; and the
\* key of mutate, get and delete is the key the create stored the record under.
C14_PresenceStateMachine ==
    /\ [](calls = 0 => \A o \in Owners, n \in Names : ~Present(State, o, n))
    /\ [](PresenceObserved /\ KeysAgree)
    /\ [][\A o \in Owners, n \in Names :
            LET hit == last'.op # "none" /\ last'.origin = Some(o) /\ last'.name = n
                       /\ last'.result = "Ok"
            IN  /\ (hit /\ last'.op = "create_attribute") => Present(StateNext, o, n)
                /\ (hit /\ last'.op = "delete_attribute") => ~Present(StateNext, o, n)
                /\ ~(hit /\ last'.op \in {"create_attribute", "delete_attribute"}) =>
                       Present(StateNext, o, n) = Present(State, o, n)]_vars

\* C15 The nonce map is never written: AttributeNonce stays empty, the nonce
\* of every (owner, name) reads 0, every stored record has nonce 0 and sits
\* under the key derived with nonce 0; and a create after a delete of the same
\* (owner, name) stores its record under the deleted key with the same nonce.
C15_NonceNeverWritten ==
    /\ [](/\ AttributeNonce = <<>>
          /\ \A o \in Owners, n \in Names : nonce_of(AttributeNonce, o, n) = 0
          /\ \A k \in DOMAIN AttributeStore :
                 /\ AttributeStore[k].nonce = 0
                 /\ k = store_key(k[1], id_of(k[1], AttributeStore[k].name, 0)))
    /\ [][(last'.op \in {"delete_attribute", "remove_attribute"} /\ last'.result = "Ok") =>
            LET o == last'.origin[1]
                deleted == DOMAIN AttributeStore \ DOMAIN AttributeStore'
                again == create_attribute(StateNext, o, last'.name, <<1>>, None).store
            IN  /\ Cardinality(deleted) = 1
                /\ DOMAIN again \ DOMAIN AttributeStore' = deleted
                /\ \A k \in deleted : again[k].nonce = AttributeStore[k].nonce]_vars

\* a record was created and deleted, and the nonce of its name still reads 0
C15_Witness ==
    /\ last.op \in {"delete_attribute", "remove_attribute"} /\ last.result = "Ok"
    /\ nonce_of(AttributeNonce, LastOwner, last.name) = 0
    /\ KeyOf(State, LastOwner, last.name) \notin DOMAIN AttributeStore

Core == {"create_attribute", "mutate_attribute", "get_attribute", "delete_attribute"}

\* C16 Unreachable error variants: no operation returns AlreadyExist,
\* FailedCreate or FailedUpdate (or the host errors they convert to),
\* create_attribute succeeds in every state, and a core operation returns
\* Ok or NotFound and nothing else.
C16_UnreachableErrors ==
    (last.op \in Core \cup Dispatchables) =>
        /\ last.result \notin {"AlreadyExist", "FailedCreate", "FailedUpdate",
                               "AttributeAlreadyExist", "AttributeCreationFailed",
                               "AttributeUpdateFailed"}
        /\ last.op = "create_attribute" => last.result = "Ok"
        /\ last.op \in Core => last.result \in {"Ok", "NotFound"}

\* the records whose validity lies before the current height
Expired == {k \in DOMAIN AttributeStore : AttributeStore[k].validity < block_number}

\* the state with the record at k valid up to the maximum height
Unexpired(st, k) == [st EXCEPT !.AttributeStore[k].validity = MaxBlockNumber]

\* two runs of an operation return the same result after the same store
\* accesses and, where they succeed, leave the same store
SameOutcome(a, b) ==
    /\ a.result = b.result
    /\ a.log = b.log
    /\ a.result = "Ok" => a.store = b.store

\* C17 No expiry enforcement: for a record whose validity lies before the
\* current height, get_attribute returns the stored record, read_attribute
\* succeeds and deposits AttributeRead with the full record, and
\* mutate_attribute and delete_attribute do what they do when the same record
\* is not expired.
C17_NoExpiryEnforcement ==
    /\ \A k \in Expired :
           LET o == k[1]
               rec == AttributeStore[k]
               n == rec.name
               fresh == Unexpired(State, k)
           IN  /\ get_attribute(State, o, n).ret = Some(rec)
               /\ read_attribute(State, Some(o), n).result = "Ok"
               /\ read_attribute(State, Some(o), n).events = <<(<<"AttributeRead", rec>>)>>
               /\ read_attribute(fresh, Some(o), n).result = "Ok"
               /\ SameOutcome(delete_attribute(State, o, n), delete_attribute(fresh, o, n))
               /\ delete_attribute(State, o, n).result = "Ok"
               /\ \A v \in Values, vf \in ValidFors :
                      SameOutcome(mutate_attribute(State, o, n, v, vf),
                                  mutate_attribute(fresh, o, n, v, vf))
    /\ (last.op \in {"get_attribute", "read_attribute"} /\ last.origin # None
            /\ KeyOf(State, LastOwner, last.name) \in Expired) =>
           LET rec == AttributeStore[KeyOf(State, LastOwner, last.name)]
           IN  /\ last.op = "get_attribute" => last.ret = Some(rec)
               /\ last.op = "read_attribute" =>
                      (last.result = "Ok" /\ last.events = <<(<<"AttributeRead", rec>>)>>)

\* a read of an attribute that expired in an earlier block
C17_Witness ==
    /\ last.op = "read_attribute" /\ last.result = "Ok"
    /\ KeyOf(State, LastOwner, last.name) \in Expired
    /\ block_number > 1

\* C18 Reads are pure: get_attribute and read_attribute, on a present or an
\* absent attribute, leave AttributeStore and the nonce map unchanged and
\* write to neither; a lookup of an absent key inserts no default record, and
\* read_attribute on an absent attribute fails with AttributeNotFound.
C18_ReadsArePure ==
    [][(last'.op \in {"get_attribute", "read_attribute"}) =>
        LET absent == last'.origin # None
                      /\ KeyOf(State, last'.origin[1], last'.name) \notin DOMAIN AttributeStore
        IN  /\ AttributeStore' = AttributeStore
            /\ AttributeNonce' = AttributeNonce
            /\ \A i \in 1..Len(last'.log) : last'.log[i] \notin StoreWrites
            /\ absent => KeyOf(State, last'.origin[1], last'.name) \notin DOMAIN AttributeStore'
            /\ (absent /\ last'.op = "get_attribute") => last'.ret = None
            /\ (absent /\ last'.op = "read_attribute") =>
                   (last'.result = "AttributeNotFound" /\ last'.events = <<>>)]_vars

\* a read of an absent attribute next to a present one
C18_Witness ==
    /\ last.op = "read_attribute" /\ last.result = "AttributeNotFound"
    /\ AttributeStore # <<>>
    /\ KeyOf(State, LastOwner, last.name) \notin DOMAIN AttributeStore

\* C19 Re-create does not preserve identity fields: create_attribute for an
\* (owner, name) that is already present replaces the whole record, so created
\* becomes the moment of the second call and validity is recomputed from the
\* second call's height; mutate_attribute keeps created.
C19_RecreateReplacesRecord ==
    [][(last'.op \in {"create_attribute", "mutate_attribute"}
            /\ get_attribute(State, last'.origin[1], last'.name).ret # None) =>
        LET old == get_attribute(State, last'.origin[1], last'.name).ret[1]
            new == get_attribute(StateNext, last'.origin[1], last'.name).ret
        IN  /\ new # None
            /\ last'.op = "mutate_attribute" => new[1].created = old.created
            /\ last'.op = "create_attribute" =>
                   /\ last'.result = "Ok"
                   /\ new[1] = [name |-> last'.name, value |-> last'.value,
                                validity |-> validity_of(block_number, last'.valid_for,
                                                         overflow_checks)[1],
                                created |-> now, nonce |-> 0]]_vars

====
